---- MODULE Spec2Model ----
(***************************************************************************)
(* Model of the document-parsing worker: python_worker/document_parser.py  *)
(* (DocumentParser) and python_worker/app.py (the /parse endpoint).        *)
(*                                                                         *)
(* A Python str is a sequence of characters, each a one-character string;  *)
(* a text is the sequence of its lines, i.e. the value of text.split('\n') *)
(* (never empty: ''.split('\n') = ['']).  Characters outside ASCII are     *)
(* written by code point ("U+2022").                                       *)
(***************************************************************************)
EXTENDS Integers, Sequences, FiniteSets, TLC

VARIABLES
    file_path,  \* parse: the argument
    doc,        \* the content of the file at file_path
    seed,       \* the str-hash seed of the interpreter running the call
    pc,         \* the position of the call in parse / _extract_profile
    text,       \* parse: the local `text`
    name,       \* _extract_profile: the local `name`
    location,   \* _extract_profile: the local `location`
    inputs,     \* _extract_profile: the local `inputs`
    candidates, \* _extract_outputs: the local `outputs`, before the dedup
    outputs,    \* _extract_profile: the local `outputs`
    result,     \* what parse returned or raised
    prev,       \* what the previous call on the same file returned or raised
    again,      \* whether this is the second call on the file
    fs,         \* app.py: the files under temp_dir
    req         \* app.py: the /parse requests

parserVars == <<file_path, doc, pc, text, name, location, inputs, candidates,
                outputs, result, prev, again>>

serverVars == <<fs, req>>

vars == <<file_path, doc, seed, pc, text, name, location, inputs, candidates,
          outputs, result, prev, again, fs, req>>

\* A local that is not assigned yet is <<>>, an assigned one is <<value>>.
Unset == <<>>

-----------------------------------------------------------------------------
(* Characters and str methods *)

LowerSeq == <<"a", "b", "c", "d", "e", "f", "g", "h", "i", "j", "k", "l", "m",
              "n", "o", "p", "q", "r", "s", "t", "u", "v", "w", "x", "y", "z">>

UpperSeq == <<"A", "B", "C", "D", "E", "F", "G", "H", "I", "J", "K", "L", "M",
              "N", "O", "P", "Q", "R", "S", "T", "U", "V", "W", "X", "Y", "Z">>

DigitSeq == <<"0", "1", "2", "3", "4", "5", "6", "7", "8", "9">>

Lowers == {LowerSeq[i] : i \in DOMAIN LowerSeq}

Uppers == {UpperSeq[i] : i \in DOMAIN UpperSeq}

Digits == {DigitSeq[i] : i \in DOMAIN DigitSeq}

Letters == Lowers \cup Uppers

\* \s, and what str.strip() removes ("\n" occurs only in a joined text)
WhiteSpace == {" ", "\t", "\r", "\n"}

\* \w
WordChars == Letters \cup Digits \cup {"_"}

Min(a, b) == IF a <= b THEN a ELSE b

SetMin(S) == CHOOSE x \in S : \A y \in S : x <= y

SetMax(S) == CHOOSE x \in S : \A y \in S : y <= x

\* c.lower()
LowerChar(c) ==
    IF c \in Uppers THEN LowerSeq[CHOOSE i \in DOMAIN UpperSeq : UpperSeq[i] = c]
    ELSE c

\* s.lower()
Lower(s) == [i \in 1..Len(s) |-> LowerChar(s[i])]

\* s.strip()
Strip(s) ==
    LET ink == {i \in 1..Len(s) : s[i] \notin WhiteSpace}
    IN  IF ink = {} THEN <<>> ELSE SubSeq(s, SetMin(ink), SetMax(ink))

\* s[i-1:].startswith(lit), i counted from 1
MatchAt(s, i, lit) ==
    /\ i >= 1
    /\ i + Len(lit) - 1 <= Len(s)
    /\ \A k \in 1..Len(lit) : s[i + k - 1] = lit[k]

\* sub in s
Contains(s, sub) == \E i \in 1..(Len(s) - Len(sub) + 1) : MatchAt(s, i, sub)

\* the index after the longest run of characters of class C starting at i
SkipWhile(s, i, C) ==
    LET stops == {j \in i..Len(s) : s[j] \notin C}
    IN  IF stops # {} THEN SetMin(stops)
        ELSE IF i > Len(s) THEN i ELSE Len(s) + 1

\* s.split(sep) for a one-character sep
RECURSIVE Split(_, _)
Split(s, sep) ==
    LET at == {i \in 1..Len(s) : s[i] = sep}
    IN  IF at = {} THEN <<s>>
        ELSE LET i == SetMin(at)
             IN  <<SubSeq(s, 1, i - 1)>> \o Split(SubSeq(s, i + 1, Len(s)), sep)

\* '\n'.join(lines)
RECURSIVE JoinLines(_)
JoinLines(lines) ==
    IF Len(lines) = 0 THEN <<>>
    ELSE IF Len(lines) = 1 THEN lines[1]
    ELSE lines[1] \o <<"\n">> \o JoinLines(Tail(lines))

\* ' '.join(s.split()) on the positions lo..hi of a stripped s: a run of
\* white space leaves one blank
RECURSIVE CollapseRange(_, _, _)
CollapseRange(s, lo, hi) ==
    IF lo > hi THEN <<>>
    ELSE IF lo = hi
         THEN IF s[lo] \notin WhiteSpace THEN <<s[lo]>>
              ELSE IF s[lo - 1] \in WhiteSpace THEN <<>>
              ELSE <<" ">>
    ELSE LET mid == (lo + hi) \div 2
         IN  CollapseRange(s, lo, mid) \o CollapseRange(s, mid + 1, hi)

Collapse(s) == CollapseRange(Strip(s), 1, Len(Strip(s)))

-----------------------------------------------------------------------------
(* DocumentParser: constants *)

\* __init__: self.input_keywords
input_keywords ==
    << <<"r", "a", "w", " ", "m", "a", "t", "e", "r", "i", "a", "l">>, <<"i", "n", "p", "u", "t">>, <<"r", "e", "s", "o", "u", "r", "c", "e">>, <<"f", "e", "e", "d">>, <<"c", "o", "n", "s", "u", "m", "e">>,
       <<"m", "a", "t", "e", "r", "i", "a", "l">>, <<"i", "n", "g", "r", "e", "d", "i", "e", "n", "t">>, <<"s", "u", "p", "p", "l", "y">>, <<"p", "u", "r", "c", "h", "a", "s", "e">> >>

\* __init__: self.output_keywords
output_keywords ==
    << <<"o", "u", "t", "p", "u", "t">>, <<"p", "r", "o", "d", "u", "c", "t">>, <<"w", "a", "s", "t", "e">>, <<"b", "y", "p", "r", "o", "d", "u", "c", "t">>, <<"b", "y", "-", "p", "r", "o", "d", "u", "c", "t">>,
       <<"r", "e", "s", "i", "d", "u", "e">>, <<"e", "m", "i", "s", "s", "i", "o", "n">>, <<"d", "i", "s", "c", "h", "a", "r", "g", "e">>, <<"s", "c", "r", "a", "p">>, <<"s", "l", "a", "g">> >>

\* _extract_items: the section keywords that end the scan
section_keywords == << <<"w", "a", "s", "t", "e">>, <<"o", "u", "t", "p", "u", "t">>, <<"p", "r", "o", "c", "e", "s", "s">> >>

\* _extract_company_name: lines[:10]
NameLines == 10

\* _extract_company_name: len(line) > 5
NameMinLen == 5

\* _extract_items: lines[i:min(i+10, len(lines))]
ItemWindow == 10

\* _extract_items: items[:10]
MaxItems == 10

\* _extract_outputs: range(1, min(5, len(lines) - i))
OutputLookahead == 5

\* _extract_outputs: unique_outputs[:10]
MaxOutputs == 10

\* _clean_item: [:100]
CleanMaxLen == 100

UnknownCompany == <<"U", "n", "k", "n", "o", "w", "n", " ", "C", "o", "m", "p", "a", "n", "y">>

UnknownQuantity == <<"U", "n", "k", "n", "o", "w", "n">>

-----------------------------------------------------------------------------
(* _clean_item *)

CleanKeep == WordChars \cup WhiteSpace \cup {"-", "/", "(", ")"}

IsCleanKept(c) == c \in CleanKeep

\* re.sub(r'[^\w\s\-/()]', '', item); ' '.join(item.split()); item.lower()[:100]
clean_item(item) ==
    LET kept == Collapse(SelectSeq(item, IsCleanKept))
    IN  SubSeq(Lower(kept), 1, Min(CleanMaxLen, Len(kept)))

-----------------------------------------------------------------------------
(* _extract_company_name *)

LabelWords == << <<"c", "o", "m", "p", "a", "n", "y">>, <<"i", "n", "d", "u", "s", "t", "r", "y">>, <<"n", "a", "m", "e">>, <<"o", "r", "g", "a", "n", "i", "z", "a", "t", "i", "o", "n">> >>

\* re.match(r'(company|industry|name|organization)[:]\s*(.+)', line, re.I):
\* <<>> when there is no match, else <<match.group(2).strip()>>.
\* `line` is stripped, so the greedy \s* leaves (.+) a character whenever
\* anything follows the colon.
LabelMatch(line) ==
    LET low   == Lower(line)
        found == {k \in DOMAIN LabelWords :
                     MatchAt(low, 1, LabelWords[k] \o <<":">>)}
    IN  IF found = {} THEN <<>>
        ELSE LET k    == SetMin(found)
                 from == SkipWhile(line, Len(LabelWords[k]) + 2, WhiteSpace)
             IN  IF from > Len(line) THEN <<>>
                 ELSE <<Strip(SubSeq(line, from, Len(line)))>>

\* line[0].isupper()
IsUpperStart(line) == Len(line) > 0 /\ line[1] \in Uppers

\* NameLoop with the label rule run over all ten lines before the capital rule
NameLoop_LabelFirst(lines, i) ==
    LET n       == Min(NameLines, Len(lines))
        labels  == {j \in 1..n : LabelMatch(Strip(lines[j])) # <<>>}
        capital == {j \in 1..n : Len(Strip(lines[j])) > NameMinLen
                                  /\ IsUpperStart(Strip(lines[j]))}
    IN  IF labels # {} THEN LabelMatch(Strip(lines[SetMin(labels)]))[1]
        ELSE IF capital # {} THEN Strip(lines[SetMin(capital)])
        ELSE UnknownCompany

\* the for loop over lines[:10], from index i
RECURSIVE NameLoop(_, _)
NameLoop(lines, i) ==
    IF i > Min(NameLines, Len(lines)) THEN UnknownCompany
    ELSE LET line == Strip(lines[i])
         IN  IF line = <<>> THEN NameLoop(lines, i + 1)
             ELSE IF LabelMatch(line) # <<>> THEN LabelMatch(line)[1]
             ELSE IF Len(line) > NameMinLen /\ IsUpperStart(line) THEN line
             ELSE NameLoop(lines, i + 1)

extract_company_name(lines) == NameLoop(lines, 1)

-----------------------------------------------------------------------------
(* _extract_location *)

\* the index after a match of -?\d+\.?\d* at i, or 0 when there is none
NumberEnd(s, i) ==
    LET d == IF i <= Len(s) /\ s[i] = "-" THEN i + 1 ELSE i
    IN  IF d > Len(s) \/ s[d] \notin Digits THEN 0
        ELSE LET e == SkipWhile(s, d, Digits)
                 f == IF e <= Len(s) /\ s[e] = "." THEN e + 1 ELSE e
             IN  SkipWhile(s, f, Digits)

\* coord_pattern matched at i: <<>> or <<group(1), group(2)>>
CoordAt(s, i) ==
    LET e1 == NumberEnd(s, i)
    IN  IF e1 = 0 THEN <<>>
        ELSE LET p == SkipWhile(s, e1, WhiteSpace)
             IN  IF p > Len(s) \/ s[p] \notin {",", "U+00B0"} THEN <<>>
                 ELSE LET q  == SkipWhile(s, p + 1, WhiteSpace)
                          e2 == NumberEnd(s, q)
                      IN  IF e2 = 0 THEN <<>>
                          ELSE <<SubSeq(s, i, e1 - 1), SubSeq(s, q, e2 - 1)>>

\* int(digits), digits a sequence of decimal digits
RECURSIVE DigitsValue(_)
DigitsValue(d) ==
    IF Len(d) = 0 THEN 0
    ELSE 10 * DigitsValue(SubSeq(d, 1, Len(d) - 1))
         + (CHOOSE v \in 0..9 : DigitSeq[v + 1] = d[Len(d)])

\* a decimal m / 10^e with no trailing zero in the fraction
RECURSIVE Normal(_, _)
Normal(m, e) == IF e > 0 /\ m % 10 = 0 THEN Normal(m \div 10, e - 1)
                ELSE [m |-> m, e |-> e]

\* float(numeral) for a numeral matched by -?\d+\.?\d* (short numerals: the
\* value is kept exactly, as mantissa and decimal exponent)
float(numeral) ==
    LET neg  == numeral[1] = "-"
        body == IF neg THEN Tail(numeral) ELSE numeral
        dig  == SelectSeq(body, LAMBDA c : c \in Digits)
        dots == {i \in 1..Len(body) : body[i] = "."}
        e    == IF dots = {} THEN 0 ELSE Len(body) - SetMin(dots)
        v    == DigitsValue(dig)
    IN  Normal(IF neg THEN 0 - v ELSE v, e)

ZeroLocation == [lat |-> [m |-> 0, e |-> 0], lng |-> [m |-> 0, e |-> 0]]

\* re.search(coord_pattern, text) over the whole text, newlines included
extract_location(lines) ==
    LET s    == JoinLines(lines)
        hits == {i \in 1..Len(s) : CoordAt(s, i) # <<>>}
    IN  IF hits = {} THEN ZeroLocation
        ELSE LET c == CoordAt(s, SetMin(hits))
             IN  [lat |-> float(c[1]), lng |-> float(c[2])]

-----------------------------------------------------------------------------
(* _extract_list_items *)

\* [\-\*•●◦▪▫]
Bullets == {"-", "*", "U+2022", "U+25CF", "U+25E6", "U+25AA", "U+25AB"}

\* the items one line contributes
LineItems(raw) ==
    LET line == Strip(raw)
        d    == SkipWhile(line, 1, Digits)
    IN  IF line = <<>> THEN <<>>
        ELSE IF line[1] \in Bullets /\ Len(line) >= 2
             THEN <<Strip(SubSeq(line, 2, Len(line)))>>
        ELSE IF d > 1 /\ d < Len(line) /\ line[d] \in {".", ")"}
             THEN <<Strip(SubSeq(line, d + 1, Len(line)))>>
        ELSE IF "," \in {line[i] : i \in 1..Len(line)}
                /\ Len(Split(line, ",")) > 1
             THEN LET parts == Split(line, ",")
                  IN  [k \in 1..Len(parts) |-> Strip(parts[k])]
        ELSE <<>>

RECURSIVE extract_list_items(_)
extract_list_items(lines) ==
    IF Len(lines) = 0 THEN <<>>
    ELSE LineItems(Head(lines)) \o extract_list_items(Tail(lines))

-----------------------------------------------------------------------------
(* _extract_items *)

\* any(kw in low for kw in kws)
HasAny(low, kws) == \E k \in DOMAIN kws : Contains(low, kws[k])

\* ItemsLoop without the break at a section line
RECURSIVE ItemsLoop_NoBreak(_, _, _, _)
ItemsLoop_NoBreak(lines, keywords, i, in_section) ==
    IF i > Len(lines) THEN <<>>
    ELSE (IF HasAny(Lower(Strip(lines[i])), keywords)
          THEN extract_list_items(
                   SubSeq(lines, i, Min(i + ItemWindow - 1, Len(lines))))
          ELSE <<>>)
         \o ItemsLoop_NoBreak(lines, keywords, i + 1, in_section)

\* the for loop from line i: the harvested items, in order
RECURSIVE ItemsLoop(_, _, _, _)
ItemsLoop(lines, keywords, i, in_section) ==
    IF i > Len(lines) THEN <<>>
    ELSE LET low   == Lower(Strip(lines[i]))
             hit   == HasAny(low, keywords)
             found == IF hit
                      THEN extract_list_items(
                               SubSeq(lines, i, Min(i + ItemWindow - 1, Len(lines))))
                      ELSE <<>>
         IN  IF (in_section \/ hit) /\ HasAny(low, section_keywords) /\ ~hit
             THEN found
             ELSE found \o ItemsLoop(lines, keywords, i + 1, in_section \/ hit)

\* the line at which the for loop breaks, 0 when it runs to the end
RECURSIVE BreakLine(_, _, _, _)
BreakLine(lines, keywords, i, in_section) ==
    IF i > Len(lines) THEN 0
    ELSE LET low == Lower(Strip(lines[i]))
             hit == HasAny(low, keywords)
         IN  IF (in_section \/ hit) /\ HasAny(low, section_keywords) /\ ~hit
             THEN i
             ELSE BreakLine(lines, keywords, i + 1, in_section \/ hit)

\* set([self._clean_item(item) for item in items if item])
CleanSet(items) ==
    {clean_item(items[k]) : k \in {j \in DOMAIN items : items[j] # <<>>}}

\* the characters a cleaned item is made of, in code order
CleanAlphabet == <<" ", "(", ")", "-", "/">> \o DigitSeq \o <<"_">> \o LowerSeq

Code(c) == CHOOSE i \in DOMAIN CleanAlphabet : CleanAlphabet[i] = c

\* hash(s) of a str under the interpreter's hash seed
RECURSIVE StrHash(_, _)
StrHash(s, sd) ==
    IF Len(s) = 0 THEN sd + 7
    ELSE (StrHash(SubSeq(s, 1, Len(s) - 1), sd) * (31 + 2 * sd) + Code(s[Len(s)]))
         % 1021

\* s < t in code-point order
RECURSIVE LexLess(_, _)
LexLess(s, t) ==
    IF Len(t) = 0 THEN FALSE
    ELSE IF Len(s) = 0 THEN TRUE
    ELSE IF s[1] # t[1] THEN Code(s[1]) < Code(t[1])
    ELSE LexLess(Tail(s), Tail(t))

\* list(S) for a set S of str: the slot order of the hash table
SetList(S, sd) ==
    LET Before(x, y) == \/ StrHash(x, sd) < StrHash(y, sd)
                        \/ StrHash(x, sd) = StrHash(y, sd) /\ LexLess(x, y)
        Rank(x)      == Cardinality({y \in S : Before(y, x)})
    IN  [k \in 1..Cardinality(S) |-> CHOOSE x \in S : Rank(x) = k - 1]

\* TruncateItems without the cut
TruncateItems_NoCut(items) == items

\* items[:10]
TruncateItems(items) == SubSeq(items, 1, Min(MaxItems, Len(items)))

extract_items(lines, keywords, sd) ==
    TruncateItems(SetList(CleanSet(ItemsLoop(lines, keywords, 1, FALSE)), sd))

-----------------------------------------------------------------------------
(* _parse_output_line *)

\* (tons?|kg|litres?|m3|cubic|gallons?): the unit and whether an s may follow
QuantityUnits ==
    << <<<<"t", "o", "n">>, TRUE>>, <<<<"k", "g">>, FALSE>>, <<<<"l", "i", "t", "r", "e">>, TRUE>>,
       <<<<"m", "3">>, FALSE>>, <<<<"c", "u", "b", "i", "c">>, FALSE>>, <<<<"g", "a", "l", "l", "o", "n">>, TRUE>> >>

\* (month|year|day)
QuantityPeriods == << <<"m", "o", "n", "t", "h">>, <<"y", "e", "a", "r">>, <<"d", "a", "y">> >>

\* the first alternative of `alts` that matches low at i: the index after
\* it, or 0
AltEnd(low, i, alts) ==
    LET found == {k \in DOMAIN alts : MatchAt(low, i, alts[k])}
    IN  IF found = {} THEN 0 ELSE i + Len(alts[SetMin(found)])

\* the index after a match of quantity_pattern at i, or 0.  Every quantifier
\* is greedy and what follows the unit cannot fail, so the match is the one
\* that takes the longest run at each step.
QuantityEnd(low, i) ==
    IF i > Len(low) \/ low[i] \notin Digits THEN 0
    ELSE LET d == SkipWhile(low, i, Digits)
             f == IF d <= Len(low) /\ low[d] = "." THEN d + 1 ELSE d
             g == SkipWhile(low, f, Digits)
             u == SkipWhile(low, g, WhiteSpace)
             found == {k \in DOMAIN QuantityUnits :
                          MatchAt(low, u, QuantityUnits[k][1])}
         IN  IF found = {} THEN 0
             ELSE LET k == SetMin(found)
                      a == u + Len(QuantityUnits[k][1])
                      b == IF QuantityUnits[k][2] /\ a <= Len(low) /\ low[a] = "s"
                           THEN a + 1 ELSE a
                      c == SkipWhile(low, b, WhiteSpace \cup {"/"})
                      p == AltEnd(low, c, QuantityPeriods)
                  IN  IF p = 0 THEN c ELSE p

\* re.search(quantity_pattern, line, re.I): <<>> or <<match.group(0)>>
QuantityMatch(line) ==
    LET low  == Lower(line)
        hits == {i \in 1..Len(line) : QuantityEnd(low, i) # 0}
    IN  IF hits = {} THEN <<>>
        ELSE LET i == SetMin(hits)
             IN  <<SubSeq(line, i, QuantityEnd(low, i) - 1)>>

\* re.search(r'\b(w1|w2|...)\b', line, re.I) is not None
HasWholeWord(line, words) ==
    LET low == Lower(line)
    IN  \E k \in DOMAIN words : \E i \in 1..Len(low) :
            /\ MatchAt(low, i, words[k])
            /\ (i = 1 \/ low[i - 1] \notin WordChars)
            /\ (i + Len(words[k]) > Len(low)
                \/ low[i + Len(words[k])] \notin WordChars)

LiquidWords == << <<"l", "i", "q", "u", "i", "d">>, <<"f", "l", "u", "i", "d">>, <<"w", "a", "t", "e", "r">>, <<"o", "i", "l">> >>

GasWords == << <<"g", "a", "s">>, <<"v", "a", "p", "o", "r">>, <<"e", "m", "i", "s", "s", "i", "o", "n">>, <<"a", "i", "r">> >>

OutputState(line) ==
    IF HasWholeWord(line, LiquidWords) THEN "liquid"
    ELSE IF HasWholeWord(line, GasWords) THEN "gas"
    ELSE "solid"

\* (?:slag|waste|residue|scrap|byproduct|emission|ash|sludge)
NameEndings ==
    << <<"s", "l", "a", "g">>, <<"w", "a", "s", "t", "e">>, <<"r", "e", "s", "i", "d", "u", "e">>, <<"s", "c", "r", "a", "p">>, <<"b", "y", "p", "r", "o", "d", "u", "c", "t">>, <<"e", "m", "i", "s", "s", "i", "o", "n">>,
       <<"a", "s", "h">>, <<"s", "l", "u", "d", "g", "e">> >>

\* [a-zA-Z\s]
NameClass == Letters \cup WhiteSpace

\* re.search(name_pattern, line, re.I): <<>> or <<match.group(1)>>.
\* A match starts at the leftmost s that has an ending at some p > s with
\* only [a-zA-Z\s] in between; the greedy + takes the rightmost such p.
NameMatch(line) ==
    LET low    == Lower(line)
        ends   == {p \in 1..Len(low) : AltEnd(low, p, NameEndings) # 0}
        Run(s, p) == \A j \in s..(p - 1) : low[j] \in NameClass
        starts == {s \in 1..Len(low) : \E p \in ends : s < p /\ Run(s, p)}
    IN  IF starts = {} THEN <<>>
        ELSE LET s == SetMin(starts)
                 p == SetMax({q \in ends : s < q /\ Run(s, q)})
             IN  <<SubSeq(line, s, AltEnd(low, p, NameEndings) - 1)>>

\* parse_output_line with `and` for `or` in the test of the two matches
parse_output_line_Both(line) ==
    IF NameMatch(line) # <<>> /\ QuantityMatch(line) # <<>>
    THEN << [name     |-> Strip(NameMatch(line)[1]),
             state    |-> OutputState(line),
             quantity |-> QuantityMatch(line)[1]] >>
    ELSE <<>>

\* <<>> for None, else the one record
parse_output_line(line) ==
    LET quantity_match == QuantityMatch(line)
        name_match     == NameMatch(line)
    IN  IF name_match # <<>> \/ quantity_match # <<>>
        THEN << [name     |-> IF name_match # <<>> THEN Strip(name_match[1])
                              ELSE clean_item(line),
                 state    |-> OutputState(line),
                 quantity |-> IF quantity_match # <<>> THEN quantity_match[1]
                              ELSE UnknownQuantity] >>
        ELSE <<>>

-----------------------------------------------------------------------------
(* _extract_outputs *)

\* what one keyword hit on line i appends: the line itself, then the next
\* lines i+1 .. i+min(5, len-i)-1 that are not blank
RECURSIVE LookAhead(_, _, _)
LookAhead(lines, i, j) ==
    IF j > Min(OutputLookahead, Len(lines) - i + 1) - 1 THEN <<>>
    ELSE LET next_line == Strip(lines[i + j])
         IN  (IF next_line # <<>> THEN parse_output_line(next_line) ELSE <<>>)
             \o LookAhead(lines, i, j + 1)

HitBlock(lines, i) ==
    parse_output_line(Strip(lines[i])) \o LookAhead(lines, i, 1)

\* the for loop over output_keywords (there is no break) from keyword k
RECURSIVE KeywordLoop(_, _, _)
KeywordLoop(lines, i, k) ==
    IF k > Len(output_keywords) THEN <<>>
    ELSE (IF Contains(Lower(Strip(lines[i])), output_keywords[k])
          THEN HitBlock(lines, i) ELSE <<>>)
         \o KeywordLoop(lines, i, k + 1)

\* the for loop over the lines, from line i: the candidate list
RECURSIVE OutputsLoop(_, _)
OutputsLoop(lines, i) ==
    IF i > Len(lines) THEN <<>>
    ELSE KeywordLoop(lines, i, 1) \o OutputsLoop(lines, i + 1)

\* UniqueOutputs keeping the last record of a name instead of the first
RECURSIVE UniqueOutputs_LastWins(_, _)
UniqueOutputs_LastWins(cands, seen) ==
    IF Len(cands) = 0 THEN <<>>
    ELSE IF \E k \in 2..Len(cands) : cands[k].name = Head(cands).name
         THEN UniqueOutputs_LastWins(Tail(cands), seen)
         ELSE <<Head(cands)>> \o UniqueOutputs_LastWins(Tail(cands), seen)

\* the dedup loop: `seen` holds the names kept so far
RECURSIVE UniqueOutputs(_, _)
UniqueOutputs(cands, seen) ==
    IF Len(cands) = 0 THEN <<>>
    ELSE IF Head(cands).name \in seen THEN UniqueOutputs(Tail(cands), seen)
    ELSE <<Head(cands)>> \o UniqueOutputs(Tail(cands), seen \cup {Head(cands).name})

\* unique_outputs[:10]
TruncateOutputs(outs) == SubSeq(outs, 1, Min(MaxOutputs, Len(outs)))

extract_outputs(lines) == TruncateOutputs(UniqueOutputs(OutputsLoop(lines, 1), {}))

-----------------------------------------------------------------------------
(* parse: the file extension and the three text extractors *)

\* os.path.splitext(path)[1]: from the last dot of the last path component,
\* unless only dots precede it there
splitext(path) ==
    LET slashes == {i \in 1..Len(path) : path[i] = "/"}
        base    == IF slashes = {} THEN 1 ELSE SetMax(slashes) + 1
        dots    == {i \in base..Len(path) : path[i] = "."}
    IN  IF dots = {} THEN <<>>
        ELSE LET d == SetMax(dots)
             IN  IF \E j \in base..(d - 1) : path[j] # "."
                 THEN SubSeq(path, d, Len(path))
                 ELSE <<>>

\* a + b for two str given by their lines
Concat(a, b) ==
    SubSeq(a, 1, Len(a) - 1) \o <<a[Len(a)] \o b[1]>> \o Tail(b)

EmptyStr == << <<>> >>

NewlineStr == << <<>>, <<>> >>

\* the universal-newlines translation of open(file_path, 'r'), on the lines
\* between the "\n" of the file: "\r\n" reads as "\n", so a line that is not
\* the last loses a final "\r"; any other "\r" reads as "\n" and splits
RECURSIVE UniversalNewlines(_)
UniversalNewlines(lines) ==
    IF Len(lines) = 0 THEN <<>>
    ELSE LET l == Head(lines)
             c == IF Len(lines) > 1 /\ Len(l) > 0 /\ l[Len(l)] = "\r"
                  THEN SubSeq(l, 1, Len(l) - 1) ELSE l
         IN  Split(c, "\r") \o UniversalNewlines(Tail(lines))

\* A document is [kind, parts]: the pages of a PDF, the paragraphs of a DOCX
\* or the one decoded body of a UTF-8 file, each part a str given by its
\* lines; kind "corrupt" is a file no extractor can read.  An extractor
\* returns <<text>>, or <<>> when the library or the decoder raises.

\* text = ""; for page in reader.pages: text += page.extract_text() + "\n"
RECURSIVE PagesText(_, _)
PagesText(acc, pages) ==
    IF Len(pages) = 0 THEN acc
    ELSE PagesText(Concat(acc, Concat(Head(pages), NewlineStr)), Tail(pages))

parse_pdf(d) == IF d.kind = "pdf" THEN <<PagesText(EmptyStr, d.parts)>> ELSE <<>>

\* "\n".join([para.text for para in doc.paragraphs])
RECURSIVE JoinParagraphs(_)
JoinParagraphs(paras) ==
    IF Len(paras) = 0 THEN EmptyStr
    ELSE IF Len(paras) = 1 THEN paras[1]
    ELSE Concat(paras[1], Concat(NewlineStr, JoinParagraphs(Tail(paras))))

parse_docx(d) == IF d.kind = "docx" THEN <<JoinParagraphs(d.parts)>> ELSE <<>>

\* open(file_path, 'r', encoding='utf-8').read()
parse_txt(d) ==
    IF d.kind = "txt"
    THEN <<UniversalNewlines(d.parts[1])>>
    ELSE <<>>

SupportedExts == { <<".", "p", "d", "f">>, <<".", "d", "o", "c", "x">>, <<".", "t", "x", "t">> }

\* ext = os.path.splitext(file_path)[1].lower()
FileExt(path) == Lower(splitext(path))

\* f"Unsupported file type: {ext}"
UnsupportedMessage(e) == <<"U", "n", "s", "u", "p", "p", "o", "r", "t", "e", "d", " ", "f", "i", "l", "e", " ", "t", "y", "p", "e", ":", " ">> \o e

Raised(type, msg) == [status |-> "raised", type |-> type, message |-> msg]

\* ExtractText comparing the extension without .lower()
ExtractText_CaseSensitive(path, d) ==
    LET e == splitext(path)
        t == IF e = <<".", "p", "d", "f">> THEN parse_pdf(d)
             ELSE IF e = <<".", "d", "o", "c", "x">> THEN parse_docx(d)
             ELSE parse_txt(d)
    IN  IF e \notin SupportedExts
        THEN [status |-> "raised", type |-> "ValueError",
              message |-> <<"U", "n", "s", "u", "p", "p", "o", "r", "t", "e", "d", " ", "f", "i", "l", "e", " ", "t", "y", "p", "e", ":", " ">> \o e]
        ELSE IF t = <<>>
             THEN [status |-> "raised", type |-> "ReadError", message |-> <<>>]
        ELSE [status |-> "text", text |-> t[1]]

\* the if/elif chain of parse: <<text>>, or the exception raised
ExtractText(path, d) ==
    LET e == FileExt(path)
        t == IF e = <<".", "p", "d", "f">> THEN parse_pdf(d)
             ELSE IF e = <<".", "d", "o", "c", "x">> THEN parse_docx(d)
             ELSE parse_txt(d)
    IN  IF e \notin SupportedExts
        THEN Raised("ValueError", UnsupportedMessage(e))
        ELSE IF t = <<>> THEN Raised("ReadError", <<>>)
        ELSE [status |-> "text", text |-> t[1]]

\* the dict _extract_profile returns
Profile(n, l, i, o) ==
    [status |-> "returned", name |-> n, location |-> l, inputs |-> i, outputs |-> o]

\* parse as one function: what it returns or raises for a file, under a seed
ParseResult(path, d, sd) ==
    LET profile(x) ==
            IF x.status = "raised" THEN x
            ELSE Profile(extract_company_name(x.text), extract_location(x.text),
                         extract_items(x.text, input_keywords, sd),
                         extract_outputs(x.text))
    IN  CHOOSE res \in {profile(x) : x \in {ExtractText(path, d)}} : TRUE

-----------------------------------------------------------------------------
(* The documents and paths the calls are run on *)

\* the longest text built from every combination of SampleLines
MaxLines == 2

\* the interpreter's hash seed is one of 0..MaxSeed
MaxSeed == 1

Seeds == 0..MaxSeed

SampleLines ==
    { <<>>,
      <<"C", "o", "m", "p", "a", "n", "y", ":", " ", "A", "c", "m", "e">>,
      <<"S", "t", "e", "e", "l", " ", "M", "i", "l", "l">>,
      <<"n", "a", "m", "e", " ", ":", " ", "B", "o">>,
      <<"I", "n", "p", "u", "t", "s", ":">>,
      <<"-", " ", "c", "o", "a", "l">>,
      <<"C", "o", "a", "l", ",", " ", "s", "a", "n", "d">>,
      <<"O", "u", "t", "p", "u", "t", "s", ":">>,
      <<"-", " ", "w", "a", "s", "t", "e", " ", "s", "l", "a", "g", " ", "(", "2", "0", "0", " ", "t", "o", "n", "s", "/", "m", "o", "n", "t", "h", ")">>,
      <<"w", "a", "s", "t", "e", " ", "s", "l", "a", "g", " ", "5", " ", "k", "g">>,
      <<"o", "i", "l", " ", "5", " ", "k", "g">> }

ShortTexts == UNION {[1..n -> SampleLines] : n \in 1..MaxLines}

\* n copies of a line
Repeat(line, n) == [i \in 1..n |-> line]

\* scenario texts: the two of the source and the documentation, and texts
\* long enough to pass the 10-line windows and the 10-entry caps
Scenarios ==
    { \* document_parser.py, __main__
      << <<>>, <<" ", " ", " ", " ", "S", "t", "e", "e", "l", " ", "R", "o", "l", "l", "i", "n", "g", " ", "M", "i", "l", "l", " ", "A">>, <<" ", " ", " ", " ", "L", "o", "c", "a", "t", "i", "o", "n", ":", " ", "1", "2", ".", "3", "4", ",", " ", "5", "6", ".", "7", "8">>,
         <<" ", " ", " ", " ">>, <<" ", " ", " ", " ", "I", "n", "p", "u", "t", "s", ":">>, <<" ", " ", " ", " ", "-", " ", "s", "c", "r", "a", "p", " ", "m", "e", "t", "a", "l">>, <<" ", " ", " ", " ", "-", " ", "c", "o", "a", "l">>,
         <<" ", " ", " ", " ", "-", " ", "c", "o", "o", "l", "i", "n", "g", " ", "w", "a", "t", "e", "r">>, <<" ", " ", " ", " ">>, <<" ", " ", " ", " ", "O", "u", "t", "p", "u", "t", "s", ":">>,
         <<" ", " ", " ", " ", "-", " ", "w", "a", "s", "t", "e", " ", "s", "l", "a", "g", " ", "(", "2", "0", "0", " ", "t", "o", "n", "s", "/", "m", "o", "n", "t", "h", ")">>,
         <<" ", " ", " ", " ", "-", " ", "c", "o", "o", "l", "i", "n", "g", " ", "w", "a", "t", "e", "r", " ", "d", "i", "s", "c", "h", "a", "r", "g", "e", " ", "(", "l", "i", "q", "u", "i", "d", ",", " ", "5", "0", "0", " ", "l", "i", "t", "r", "e", "s", "/", "d", "a", "y", ")">>, <<" ", " ", " ", " ">> >>,
      << <<"C", "o", "m", "p", "a", "n", "y", ":", " ", "A", "c", "m", "e", " ", "C", "o", "r", "p">>, <<"L", "o", "c", "a", "t", "i", "o", "n", ":", " ", "1", "2", ".", "3", "4", ",", " ", "5", "6", ".", "7", "8">>, <<"I", "n", "p", "u", "t", "s", ":">>,
         <<"-", " ", "s", "c", "r", "a", "p", " ", "m", "e", "t", "a", "l">>, <<"-", " ", "c", "o", "a", "l">>, <<"O", "u", "t", "p", "u", "t", "s", ":">>,
         <<"-", " ", "w", "a", "s", "t", "e", " ", "s", "l", "a", "g", " ", "(", "2", "0", "0", " ", "t", "o", "n", "s", "/", "m", "o", "n", "t", "h", ")">> >>,
      \* a label on line 10 and on line 11
      Repeat(<<"a", "c", "m", "e">>, 9) \o << <<"I", "n", "d", "u", "s", "t", "r", "y", ":", " ", " ", "S", "t", "e", "e", "l", " ">> >>,
      Repeat(<<"a", "c", "m", "e">>, 10) \o << <<"I", "n", "d", "u", "s", "t", "r", "y", ":", " ", " ", "S", "t", "e", "e", "l", " ">> >>,
      \* a label with nothing after the colon, a label in capitals
      << <<"C", "o", "m", "p", "a", "n", "y", ":">>, <<"C", "o", "m", "p", "a", "n", "y", ":", " ", "A", "c", "m", "e">> >>,
      << <<"a", "c", "m", "e">>, <<"O", "R", "G", "A", "N", "I", "Z", "A", "T", "I", "O", "N", ":", "x", " ", "y">> >>,
      \* twelve items and eleven output names
      << <<"f", "e", "e", "d", " ", "a", ",", "b", ",", "c", ",", "d", ",", "e", ",", "f", ",", "g", ",", "h", ",", "i", ",", "j", ",", "k", ",", "l">>, <<"a", " ", "s", "l", "a", "g">>, <<"b", " ", "s", "l", "a", "g">>, <<"c", " ", "s", "l", "a", "g">>,
         <<"d", " ", "s", "l", "a", "g">>, <<"e", " ", "s", "l", "a", "g">>, <<"f", " ", "s", "l", "a", "g">>, <<"g", " ", "s", "l", "a", "g">>, <<"h", " ", "s", "l", "a", "g">>, <<"i", " ", "s", "l", "a", "g">>,
         <<"j", " ", "s", "l", "a", "g">>, <<"k", " ", "s", "l", "a", "g">> >>,
      \* an input keyword past the window of the first, behind a section line
      << <<"I", "n", "p", "u", "t", "s", ":">>, <<"1", ")", " ", "o", "r", "e">>, <<"P", "r", "o", "c", "e", "s", "s", " ", "w", "a", "s", "t", "e">> >> \o Repeat(<<>>, 8)
         \o << <<"s", "u", "p", "p", "l", "y", ":", " ", "x", ",", " ", "y">>, <<"2", ".", " ", "z">> >>,
      \* a lookahead of four lines, a fifth out of reach
      << <<"E", "m", "i", "s", "s", "i", "o", "n">>, <<"1", "2", ".", "5", " ", "m", "3", "/", "d", "a", "y", " ", "g", "a", "s">>, <<>>, <<"3", " ", "k", "g">>, <<"f", "l", "y", " ", "a", "s", "h">>, <<"7", " ", "t", "o", "n", "s">> >>,
      \* a cleaned name cut at 100 characters
      << <<"s", "c", "r", "a", "p", ":">>, <<"9", " ", "k", "g", " ", "!">> \o Repeat("x", 50) \o <<" ", " ">> \o Repeat("Y", 50) >> }

Texts == ShortTexts \cup Scenarios

TxtDoc(t) == [kind |-> "txt", parts |-> <<t>>]

OtherDocs ==
    { [kind |-> "pdf",
       parts |-> << <<<<"N", "a", "m", "e", ":", " ", "P">>, <<"W", "a", "s", "t", "e", ":", " ", "3", " ", "t", "o", "n", "s">>>>, <<<<"f", "l", "y", " ", "a", "s", "h">>>> >>],
      [kind |-> "pdf", parts |-> <<>>],
      [kind |-> "docx",
       parts |-> << <<<<"O", "r", "g", "a", "n", "i", "z", "a", "t", "i", "o", "n", ":", " ", "D">>>>, <<<<"f", "e", "e", "d", ":", " ", "a", ",", " ", "b">>>>, <<<<"s", "c", "r", "a", "p", " ", "2", " ", "k", "g">>>> >>],
      [kind |-> "txt", parts |-> << <<<<"C", "o", "m", "p", "a", "n", "y", ":", " ", "W", "\r">>, <<"I", "n", "p", "u", "t", ":", " ", "a", ",", " ", "b", "\r", "c", ",", " ", "d", "\r">>>> >>],
      [kind |-> "corrupt", parts |-> <<>>] }

TxtPath == <<"r", ".", "t", "x", "t">>

Paths ==
    { TxtPath, <<"R", ".", "T", "X", "T">>, <<"r", ".", "p", "d", "f">>, <<"r", ".", "P", "d", "f">>, <<"r", ".", "d", "o", "c", "x">>, <<"r", ".", "D", "O", "C", "X">>, <<"r", ".", "d", "o", "c">>,
      <<"r">>, <<".", "t", "x", "t">>, <<"a", ".", "b", "/", "r">>, <<"r", ".", "t", "a", "r", ".", "g", "z">>, <<"r", ".", "t", "x", "t", ".", "b", "a", "k">> }

\* the (path, content) pairs a call is started on
Files ==
    {<<TxtPath, TxtDoc(t)>> : t \in Texts} \cup (Paths \X OtherDocs)

-----------------------------------------------------------------------------
(* The parse call, statement by statement *)

ParserInit ==
    /\ \E f \in Files : file_path = f[1] /\ doc = f[2]
    /\ seed \in Seeds
    /\ pc = "parse"
    /\ text = Unset /\ name = Unset /\ location = Unset /\ inputs = Unset
    /\ candidates = Unset /\ outputs = Unset /\ result = Unset
    /\ prev = Unset
    /\ again = FALSE

\* parse, lines 23-32: the extension, the extractor, or the raise
ParseFile ==
    /\ pc = "parse"
    /\ LET x == ExtractText(file_path, doc)
       IN  IF x.status = "raised"
           THEN /\ result' = <<x>>
                /\ pc' = "raised"
                /\ text' = text
           ELSE /\ text' = <<x.text>>
                /\ pc' = "name"
                /\ result' = result
    /\ UNCHANGED <<file_path, doc, seed, name, location, inputs, candidates,
                   outputs, prev, again, fs, req>>

\* _extract_profile, line 60
ExtractName ==
    /\ pc = "name"
    /\ name' = <<extract_company_name(text[1])>>
    /\ pc' = "location"
    /\ UNCHANGED <<file_path, doc, seed, text, location, inputs, candidates,
                   outputs, result, prev, again, fs, req>>

\* _extract_profile, line 63
ExtractLocation ==
    /\ pc = "location"
    /\ location' = <<extract_location(text[1])>>
    /\ pc' = "inputs"
    /\ UNCHANGED <<file_path, doc, seed, text, name, inputs, candidates,
                   outputs, result, prev, again, fs, req>>

\* _extract_profile, line 66
ExtractInputs ==
    /\ pc = "inputs"
    /\ inputs' = <<extract_items(text[1], input_keywords, seed)>>
    /\ pc' = "scan"
    /\ UNCHANGED <<file_path, doc, seed, text, name, location, candidates,
                   outputs, result, prev, again, fs, req>>

\* _extract_outputs, lines 148-168: the scan
ScanOutputs ==
    /\ pc = "scan"
    /\ candidates' = <<OutputsLoop(text[1], 1)>>
    /\ pc' = "dedup"
    /\ UNCHANGED <<file_path, doc, seed, text, name, location, inputs,
                   outputs, result, prev, again, fs, req>>

\* _extract_outputs, lines 170-178: the dedup and the cut
DedupOutputs ==
    /\ pc = "dedup"
    /\ outputs' = <<TruncateOutputs(UniqueOutputs(candidates[1], {}))>>
    /\ pc' = "return"
    /\ UNCHANGED <<file_path, doc, seed, text, name, location, inputs,
                   candidates, result, prev, again, fs, req>>

\* _extract_profile, lines 71-76
ReturnProfile ==
    /\ pc = "return"
    /\ result' = <<Profile(name[1], location[1], inputs[1], outputs[1])>>
    /\ pc' = "done"
    /\ UNCHANGED <<file_path, doc, seed, text, name, location, inputs,
                   candidates, outputs, prev, again, fs, req>>

\* the same file parsed once more, by an interpreter with any seed
CallAgain ==
    /\ pc \in {"done", "raised"}
    /\ ~again
    /\ again' = TRUE
    /\ prev' = result
    /\ seed' \in Seeds
    /\ pc' = "parse"
    /\ text' = Unset /\ name' = Unset /\ location' = Unset /\ inputs' = Unset
    /\ candidates' = Unset /\ outputs' = Unset /\ result' = Unset
    /\ UNCHANGED <<file_path, doc, fs, req>>

ParserNext ==
    \/ ParseFile
    \/ ExtractName
    \/ ExtractLocation
    \/ ExtractInputs
    \/ ScanOutputs
    \/ DedupOutputs
    \/ ReturnProfile
    \/ CallAgain

-----------------------------------------------------------------------------
(* app.py: the /parse endpoint *)

\* the requests handled concurrently, each by its own thread
NumRequests == 2

Requests == 1..NumRequests

\* request.json when the request carries no JSON body
NoJson == [json |-> FALSE]

FileNames == { <<"a", ".", "t", "x", "t">>, <<"b", ".", "e", "x", "e">> }

\* requests.get(url): the document served, <<>> where raise_for_status raises
Remote(url) ==
    IF url = "http://h/1"
    THEN << TxtDoc(<< <<"C", "o", "m", "p", "a", "n", "y", ":", " ", "O", "n", "e">>, <<"f", "e", "e", "d", ":", " ", "a", ",", " ", "b">>, <<"2", " ", "k", "g", " ", "s", "c", "r", "a", "p">> >>) >>
    ELSE IF url = "http://h/2"
    THEN << TxtDoc(<< <<"C", "o", "m", "p", "a", "n", "y", ":", " ", "T", "w", "o">>, <<"-", " ", "f", "l", "y", " ", "a", "s", "h", " ", "7", " ", "t", "o", "n", "s">> >>) >>
    ELSE <<>>

Urls == {"http://h/1", "http://h/2", "http://h/404"}

\* the JSON objects posted: either key may be missing, or empty
Bodies ==
    {NoJson}
    \cup {[json |-> TRUE, file_url |-> u, filename |-> f] :
             u \in Urls \cup {""}, f \in FileNames \cup {<<>>}}
    \cup {[json |-> TRUE, file_url |-> u] : u \in Urls \cup {""}}
    \cup {[json |-> TRUE, filename |-> f] : f \in FileNames \cup {<<>>}}
    \cup {[json |-> TRUE]}

\* `not data.get(key)`: the key is missing (None) or its value is empty
NotGiven(data, key) ==
    \/ key \notin DOMAIN data
    \/ key = "file_url" /\ data[key] = ""
    \/ key = "filename" /\ data[key] = <<>>

\* temp_dir
TempDir == <<"/", "t", "m", "p", "/", "i", "n", "d", "u", "s", "t", "r", "i", "a", "l", "_", "s", "y", "m", "b", "i", "o", "s", "i", "s">>

\* os.path.join(temp_dir, filename)
JoinPath(dir, filename) ==
    IF Len(filename) > 0 /\ filename[1] = "/" THEN filename
    ELSE dir \o <<"/">> \o filename

\* str(e) of the exceptions raised outside document_parser.py, by kind
ErrorText(kind) ==
    IF kind = "AttributeError" THEN <<"'", "N", "o", "n", "e", "T", "y", "p", "e", "'", " ", "o", "b", "j", "e", "c", "t", " ", "h", "a", "s", " ", "n", "o", " ", "a", "t", "t", "r", "i", "b", "u", "t", "e", " ", "'", "g", "e", "t", "'">>
    ELSE IF kind = "UnsupportedMediaType" THEN <<"4", "1", "5", " ", "U", "n", "s", "u", "p", "p", "o", "r", "t", "e", "d", " ", "M", "e", "d", "i", "a", " ", "T", "y", "p", "e">>
    ELSE IF kind = "HTTPError" THEN <<"4", "0", "4", " ", "C", "l", "i", "e", "n", "t", " ", "E", "r", "r", "o", "r">>
    ELSE IF kind = "ConnectionError" THEN <<"C", "o", "n", "n", "e", "c", "t", "i", "o", "n", " ", "b", "r", "o", "k", "e", "n">>
    ELSE IF kind = "FileNotFoundError" THEN <<"[", "E", "r", "r", "n", "o", " ", "2", "]", " ", "N", "o", " ", "s", "u", "c", "h", " ", "f", "i", "l", "e", " ", "o", "r", " ", "d", "i", "r", "e", "c", "t", "o", "r", "y">>
    ELSE <<"c", "a", "n", "n", "o", "t", " ", "r", "e", "a", "d", " ", "t", "h", "e", " ", "d", "o", "c", "u", "m", "e", "n", "t">>

\* jsonify({"error": ...}), code
ErrorResponse(code, msg) == [code |-> code, error |-> msg]

\* jsonify({"profile": profile}), 200; the fresh id and the two timestamps
\* of the profile are left out
ProfileResponse(p) ==
    [code |-> 200,
     profile |-> [name |-> p.name, location |-> p.location,
                  inputs |-> p.inputs, outputs |-> p.outputs]]

\* the except clause, for what parser.parse raised
ParseErrorResponse(x) ==
    ErrorResponse(500, IF x.type = "ValueError" THEN x.message
                       ELSE ErrorText(x.type))

\* the empty file open(local_path, 'wb') leaves before the first write
EmptyFile == TxtDoc(EmptyStr)

ServerInit ==
    /\ fs = <<>>
    /\ req \in [Requests -> {[body |-> b, pc |-> "json", local_path |-> <<>>,
                              ino |-> 0, wrote |-> FALSE, response |-> <<>>,
                              temp_left |-> FALSE] : b \in Bodies}]
    /\ seed \in Seeds

\* the request returns: its response, and whether its temp file is still there
Respond(r, resp, files) ==
    req' = [req EXCEPT ![r].pc = "done",
                       ![r].response = <<resp>>,
                       ![r].temp_left = (req[r].local_path \in DOMAIN files)]

\* lines 19-24: request.json and the two fields
ReadJson(r) ==
    /\ req[r].pc = "json"
    /\ LET data == req[r].body
       IN  IF ~data.json
           THEN \* request.json raises, or is None and data.get raises
                \E k \in {"AttributeError", "UnsupportedMediaType"} :
                    Respond(r, ErrorResponse(500, ErrorText(k)), fs)
           ELSE IF NotGiven(data, "file_url") \/ NotGiven(data, "filename")
           THEN Respond(r, ErrorResponse(400, <<"M", "i", "s", "s", "i", "n", "g", " ", "f", "i", "l", "e", "_", "u", "r", "l", " ", "o", "r", " ", "f", "i", "l", "e", "n", "a", "m", "e">>), fs)
           ELSE req' = [req EXCEPT ![r].pc = "get",
                                   ![r].local_path = JoinPath(TempDir, data.filename)]
    /\ UNCHANGED <<fs, seed, parserVars>>

\* download_file, lines 54-62: the GET, raise_for_status and open(.., 'wb')
OpenTemp(r) ==
    /\ req[r].pc = "get"
    /\ LET p == req[r].local_path
       IN  IF Remote(req[r].body.file_url) = <<>>
           THEN /\ Respond(r, ErrorResponse(500, ErrorText("HTTPError")), fs)
                /\ fs' = fs
           ELSE /\ fs' = IF p \in DOMAIN fs
                         THEN [fs EXCEPT ![p].content = EmptyFile]
                         ELSE (p :> [ino |-> r, content |-> EmptyFile]) @@ fs
                /\ req' = [req EXCEPT ![r].pc = "write",
                                      ![r].ino = IF p \in DOMAIN fs
                                                 THEN fs[p].ino ELSE r]
    /\ UNCHANGED <<seed, parserVars>>

\* download_file, lines 63-66: the chunks written to the open file, which
\* another request may have unlinked meanwhile
WriteTemp(r) ==
    /\ req[r].pc = "write"
    /\ LET p == req[r].local_path
       IN  fs' = IF p \in DOMAIN fs /\ fs[p].ino = req[r].ino
                 THEN [fs EXCEPT ![p].content = Remote(req[r].body.file_url)[1]]
                 ELSE fs
    /\ req' = [req EXCEPT ![r].pc = "parse", ![r].wrote = TRUE]
    /\ UNCHANGED <<seed, parserVars>>

\* download_file, line 63: iter_content raises when the connection breaks
AbortDownload(r) ==
    /\ req[r].pc = "write"
    /\ Respond(r, ErrorResponse(500, ErrorText("ConnectionError")), fs)
    /\ UNCHANGED <<fs, seed, parserVars>>

\* line 30: parser.parse(local_path) on what the path holds now
ParseTemp(r) ==
    /\ req[r].pc = "parse"
    /\ LET p == req[r].local_path
       IN  \E x \in {IF FileExt(p) \in SupportedExts /\ p \notin DOMAIN fs
                      THEN Raised("FileNotFoundError", <<>>)
                      ELSE ParseResult(p, IF p \in DOMAIN fs THEN fs[p].content
                                          ELSE EmptyFile, seed)} :
               IF x.status = "raised"
               THEN Respond(r, ParseErrorResponse(x), fs)
               ELSE req' = [req EXCEPT ![r].pc = "exists",
                                       ![r].response = <<ProfileResponse(x)>>]
    /\ UNCHANGED <<fs, seed, parserVars>>

\* line 33: os.path.exists(local_path); when false, lines 37-47
CheckExists(r) ==
    /\ req[r].pc = "exists"
    /\ IF req[r].local_path \in DOMAIN fs
       THEN req' = [req EXCEPT ![r].pc = "remove"]
       ELSE Respond(r, req[r].response[1], fs)
    /\ UNCHANGED <<fs, seed, parserVars>>

\* line 34: os.remove(local_path), then lines 37-47
RemoveTemp(r) ==
    /\ req[r].pc = "remove"
    /\ LET p == req[r].local_path
       IN  IF p \in DOMAIN fs
           THEN /\ fs' = [q \in DOMAIN fs \ {p} |-> fs[q]]
                /\ Respond(r, req[r].response[1], fs')
           ELSE /\ fs' = fs
                /\ Respond(r, ErrorResponse(500, ErrorText("FileNotFoundError")), fs)
    /\ UNCHANGED <<seed, parserVars>>

ServerNext ==
    \E r \in Requests :
        \/ ReadJson(r)
        \/ OpenTemp(r)
        \/ WriteTemp(r)
        \/ AbortDownload(r)
        \/ ParseTemp(r)
        \/ CheckExists(r)
        \/ RemoveTemp(r)

\* the responses a request with this body can get when it runs alone
AloneResponses(data, sd) ==
    IF ~data.json
    THEN {ErrorResponse(500, ErrorText(k)) :
             k \in {"AttributeError", "UnsupportedMediaType"}}
    ELSE IF NotGiven(data, "file_url") \/ NotGiven(data, "filename")
    THEN {ErrorResponse(400, <<"M", "i", "s", "s", "i", "n", "g", " ", "f", "i", "l", "e", "_", "u", "r", "l", " ", "o", "r", " ", "f", "i", "l", "e", "n", "a", "m", "e">>)}
    ELSE IF Remote(data.file_url) = <<>>
    THEN {ErrorResponse(500, ErrorText("HTTPError"))}
    ELSE LET x == ParseResult(JoinPath(TempDir, data.filename),
                              Remote(data.file_url)[1], sd)
         IN  {ErrorResponse(500, ErrorText("ConnectionError")),
              IF x.status = "raised" THEN ParseErrorResponse(x)
              ELSE ProfileResponse(x)}

-----------------------------------------------------------------------------
(* SPECIFICATIONS *)

\* parse called on a file, twice
Init ==
    /\ ParserInit
    /\ fs = <<>>
    /\ req = <<>>

Next == ParserNext

Spec == Init /\ [][Next]_vars

\* the endpoint serving NumRequests requests
ServerSpecInit ==
    /\ ServerInit
    /\ file_path = <<>> /\ doc = <<>> /\ pc = "idle"
    /\ text = Unset /\ name = Unset /\ location = Unset /\ inputs = Unset
    /\ candidates = Unset /\ outputs = Unset /\ result = Unset
    /\ prev = Unset /\ again = FALSE

ServerSpec == ServerSpecInit /\ [][ServerNext]_vars

-----------------------------------------------------------------------------
(* PROPERTIES of the parser, checked under Spec *)

\* the distinct cleaned items harvested from the current text
Harvested == CleanSet(ItemsLoop(text[1], input_keywords, 1, FALSE))

\* C1: for every text, the list _extract_items returns and the list
\* _extract_outputs returns each have at most 10 entries, however many
\* items or records were found.
C1_AtMostTen ==
    /\ inputs # Unset => Len(inputs[1]) <= 10
    /\ outputs # Unset => Len(outputs[1]) <= 10

\* C1 witness: a finished call that found more than 10 distinct items and
\* more than 10 distinct output names.
C1_Witness ==
    /\ pc = "done"
    /\ Cardinality(Harvested) > 10
    /\ Cardinality({candidates[1][k].name : k \in DOMAIN candidates[1]}) > 10

\* C2: the records _extract_outputs returns have pairwise distinct names; of
\* the candidates sharing a name only the first in scan order is kept, with
\* its own state and quantity, and the kept records stand in the order of
\* their first occurrence (the first 10 of them).
C2_FirstSeenWins ==
    outputs # Unset =>
        LET c      == candidates[1]
            o      == outputs[1]
            first  == {i \in DOMAIN c : \A j \in 1..(i - 1) : c[j].name # c[i].name}
            Nth(k) == CHOOSE i \in first : Cardinality({j \in first : j < i}) = k - 1
        IN  /\ \A a, b \in DOMAIN o : a # b => o[a].name # o[b].name
            /\ Len(o) = Min(10, Cardinality(first))
            /\ \A k \in DOMAIN o : o[k] = c[Nth(k)]

\* C2 witness: a finished call whose candidates hold two records of one name
\* with different quantities.
C2_Witness ==
    /\ pc = "done"
    /\ \E i, j \in DOMAIN candidates[1] :
           /\ i < j
           /\ candidates[1][i].name = candidates[1][j].name
           /\ candidates[1][i].quantity # candidates[1][j].quantity

NothingExtracted ==
    /\ text = Unset /\ name = Unset /\ location = Unset /\ inputs = Unset
    /\ candidates = Unset /\ outputs = Unset

\* C3: parse on a path whose extension, compared case-insensitively, is none
\* of .pdf, .docx, .txt raises the unsupported-format error naming the
\* extension, runs no resolver and returns no profile; for the three
\* supported extensions in any letter case it does not raise that error.
C3_UnsupportedFormat ==
    pc # "parse" =>
        LET e == Lower(splitext(file_path))
        IN  IF e \notin { <<".", "p", "d", "f">>, <<".", "d", "o", "c", "x">>, <<".", "t", "x", "t">> }
            THEN /\ pc = "raised"
                 /\ result = << [status |-> "raised", type |-> "ValueError",
                                 message |-> <<"U", "n", "s", "u", "p", "p", "o", "r", "t", "e", "d", " ", "f", "i", "l", "e", " ", "t", "y", "p", "e", ":", " ">> \o e] >>
                 /\ NothingExtracted
            ELSE ~(result # Unset /\ result[1].status = "raised"
                                  /\ result[1].type = "ValueError")

\* C3 witness: a call that raised for an unsupported extension written with
\* capital letters or with no extension at all, while another spelling of a
\* supported one goes on.
C3_Witness ==
    /\ pc = "raised"
    /\ Lower(splitext(file_path)) \notin SupportedExts
    /\ result[1].type = "ValueError"

\* the label pattern as C4 states it: the label, optional white space, a
\* colon, the remainder
ClaimedLabel(line) ==
    LET low   == Lower(line)
        found == {k \in DOMAIN LabelWords : MatchAt(low, 1, LabelWords[k])}
    IN  IF found = {} THEN <<>>
        ELSE LET c == SkipWhile(line, Len(LabelWords[SetMin(found)]) + 1, WhiteSpace)
             IN  IF c > Len(line) \/ line[c] # ":" THEN <<>>
                 ELSE IF Strip(SubSeq(line, c + 1, Len(line))) = <<>> THEN <<>>
                 ELSE <<Strip(SubSeq(line, c + 1, Len(line)))>>

\* the name as C4 states it: the label rule over all of the first 10 lines,
\* the capital rule only when no line matches the label pattern
ClaimedName(lines) ==
    LET n       == Min(10, Len(lines))
        labels  == {j \in 1..n : ClaimedLabel(Strip(lines[j])) # <<>>}
        capital == {j \in 1..n : Len(Strip(lines[j])) > 5
                                  /\ Strip(lines[j])[1] \in Uppers}
    IN  IF labels # {} THEN ClaimedLabel(Strip(lines[SetMin(labels)]))[1]
        ELSE IF capital # {} THEN Strip(lines[SetMin(capital)])
        ELSE <<"U", "n", "k", "n", "o", "w", "n", " ", "C", "o", "m", "p", "a", "n", "y">>

\* C4 as stated: if any of the first 10 lines matches the label pattern
\* (label, optional white space, colon, remainder) the name is the trimmed
\* remainder of the first such line; the first capitalised line longer than
\* 5 characters is the name only when no line matches the label pattern;
\* else "Unknown Company".
C4_Original == name # Unset => name[1] = ClaimedName(text[1])

\* C4 amended: the first of the first 10 lines (trimmed, blank lines
\* skipped) that either matches the label pattern, with the colon directly
\* after the label, or is longer than 5 characters with an uppercase first
\* character decides the name: the trimmed remainder in the first case, the
\* line itself in the second; with no such line it is "Unknown Company".
C4_FirstDecisiveLine ==
    name # Unset =>
        LET lines      == text[1]
            Line(j)    == Strip(lines[j])
            IsLabel(j) == LabelMatch(Line(j)) # <<>>
            IsCap(j)   == Len(Line(j)) > 5 /\ Line(j)[1] \in Uppers
            decisive   == {j \in 1..Min(10, Len(lines)) : IsLabel(j) \/ IsCap(j)}
        IN  IF decisive = {} THEN name[1] = <<"U", "n", "k", "n", "o", "w", "n", " ", "C", "o", "m", "p", "a", "n", "y">>
            ELSE LET j == SetMin(decisive)
                 IN  name[1] = IF IsLabel(j) THEN LabelMatch(Line(j))[1] ELSE Line(j)

\* C4 witness: a capitalised line stands before a label line, and the name is
\* the capitalised line.
C4_Witness ==
    /\ name # Unset
    /\ \E i, j \in 1..Min(10, Len(text[1])) :
           /\ i < j
           /\ LabelMatch(Strip(text[1][j])) # <<>>
           /\ name[1] = Strip(text[1][i])
           /\ LabelMatch(Strip(text[1][i])) = <<>>

\* C5: calling the resolvers twice on the same text yields identical
\* results, the content and the order of the inputs list included; the
\* result depends on the text only.
C5_Idempotent == (again /\ pc \in {"done", "raised"}) => result = prev

\* C8: _parse_output_line yields a record if and only if the line matches
\* the name pattern or the quantity pattern; a record has a non-empty name,
\* the trimmed name match when there is one and the cleaned line otherwise,
\* and its quantity is the matched quantity text, a piece of the line, or
\* "Unknown".  Stated of every line of the scanned text and of every
\* candidate the scan appended.
C8_OutputLine ==
    candidates # Unset =>
        /\ \A i \in DOMAIN text[1] :
               LET line == Strip(text[1][i])
                   r    == parse_output_line(line)
                   nm   == NameMatch(line)
                   qm   == QuantityMatch(line)
               IN  /\ (r # <<>>) <=> (nm # <<>> \/ qm # <<>>)
                   /\ r # <<>> =>
                          /\ r[1].name # <<>>
                          /\ r[1].name = IF nm # <<>> THEN Strip(nm[1])
                                         ELSE clean_item(line)
                          /\ \/ r[1].quantity = <<"U", "n", "k", "n", "o", "w", "n">> /\ qm = <<>>
                             \/ /\ qm # <<>>
                                /\ r[1].quantity = qm[1]
                                /\ Contains(line, r[1].quantity)
        /\ \A k \in DOMAIN candidates[1] :
               /\ candidates[1][k].name # <<>>
               /\ \E i \in DOMAIN text[1] :
                      <<candidates[1][k]>> = parse_output_line(Strip(text[1][i]))

\* C8 witness: the scan kept a record named by the name pattern with no
\* quantity and a record named by its cleaned line, and passed a line that
\* yields nothing.
C8_Witness ==
    /\ candidates # Unset
    /\ \E a, b \in DOMAIN candidates[1] :
           /\ candidates[1][a].quantity = <<"U", "n", "k", "n", "o", "w", "n">>
           /\ \E i \in DOMAIN text[1] :
                  /\ NameMatch(Strip(text[1][i])) = <<>>
                  /\ candidates[1][b].name = clean_item(Strip(text[1][i]))
    /\ \E i \in DOMAIN text[1] :
           Strip(text[1][i]) # <<>> /\ parse_output_line(Strip(text[1][i])) = <<>>

\* the line at which the scan of the current text stopped, 0 if none
StoppedAt == BreakLine(text[1], input_keywords, 1, FALSE)

-----------------------------------------------------------------------------
(* PROPERTIES of the endpoint, checked under ServerSpec *)

\* a request is malformed: no JSON body, or file_url or filename missing or
\* empty
Malformed(data) ==
    \/ ~data.json
    \/ "file_url" \notin DOMAIN data \/ "filename" \notin DOMAIN data
    \/ data.file_url = "" \/ data.filename = <<>>

\* C6: a malformed request is answered 400, a download or parser failure 500
\* with an error message, anything else 200 with a profile; no malformed
\* request is answered 500 and no failure 200.
C6_ResponseCodes ==
    \A r \in Requests :
        req[r].pc = "done" =>
            LET resp == req[r].response[1]
            IN  /\ Malformed(req[r].body) <=> resp.code = 400
                /\ resp.code \in {200, 400, 500}
                /\ resp.code = 200 <=> "profile" \in DOMAIN resp
                /\ resp.code = 500 => "error" \in DOMAIN resp

\* C7: under every interleaving of two requests, also two with the same
\* filename, each request is answered as if it had run alone.
C7_AsIfAlone ==
    \A r \in Requests :
        req[r].pc = "done" =>
            req[r].response[1] \in AloneResponses(req[r].body, seed)

\* C10: once a request whose download wrote a temp file is answered, 200 or
\* 500, that file no longer exists.
C10_TempFileRemoved ==
    \A r \in Requests :
        (req[r].pc = "done" /\ req[r].wrote) => ~req[r].temp_left

====
